---- MODULE Spec2Model ----
(***************************************************************************)
(* A model of src/custom.ts: the IKChain class (FABRIK solver, joint and   *)
(* mid-segment sprite attachments) and the createIKChain block.            *)
(*                                                                         *)
(* Numbers.  The program computes in floating point.  The model computes   *)
(* in fixed point: a coordinate or a length is an integer count of         *)
(* 1/Scale pixel, every arithmetic result is rounded to the nearest such   *)
(* count, and a square root keeps about Prec significant steps, so that    *)
(* rounding is present (as it is in the program) and bounded.              *)
(*                                                                         *)
(* Sprites are objects of the host engine: the model keeps a heap          *)
(* `sprites` from sprite identity to position, and the chain holds         *)
(* identities (or Null), so that one sprite bound in several places is     *)
(* one object, as in the program.                                          *)
(*                                                                         *)
(* Not modelled: Segment.angle, color and thickness (written, and read     *)
(* only by the drawing methods), and the drawing methods themselves.       *)
(***************************************************************************)
EXTENDS Integers, Sequences, FiniteSets

(***************************************************************************)
(* Bounds of the model.                                                    *)
(***************************************************************************)
\* fixed-point steps per pixel
Scale == 16
\* the significant steps a square root keeps
Prec == 4096
\* the largest segmentCount passed to createIKChain
MaxSegments == 2
\* calls of the chain's operations in one behaviour
MaxCalls == 3
\* of which addJointSprite / addMidSegmentSprite calls
MaxAdds == 2

\* the fixed number of FABRIK iterations
iterations == 10

\* the valid segment length used, in pixels
SegLen == 5

Null == "null"
\* the sprites of the host program
Sprites == {"base", "head", "a"}

Px(n) == n * Scale
Pt(x, y) == [x |-> Px(x), y |-> Px(y)]

(***************************************************************************)
(* Arithmetic.                                                             *)
(***************************************************************************)
Abs(a) == IF a < 0 THEN -a ELSE a
Max(a, b) == IF a >= b THEN a ELSE b
Min(a, b) == IF a <= b THEN a ELSE b

\* a / b rounded to the nearest integer (b > 0), halves away from zero
RoundDiv(a, b) ==
    IF a >= 0 THEN (2 * a + b) \div (2 * b) ELSE -((2 * (-a) + b) \div (2 * b))

RECURSIVE Doubling(_, _)
Doubling(n, g) == IF g * g >= n THEN g ELSE Doubling(n, 2 * g)

RECURSIVE Newton(_, _)
Newton(n, x) ==
    LET y == (x + n \div x) \div 2
    IN IF y >= x THEN x ELSE Newton(n, y)

\* Math.sqrt on a natural number, rounded to the nearest integer
MathSqrt(n) ==
    IF n = 0 THEN 0
    ELSE LET r == Newton(n, Doubling(n, 1))
         IN IF n - r * r > r THEN r + 1 ELSE r

\* Math.sqrt(dx * dx + dy * dy): the number len / k.  A short vector is
\* scaled up by k first, so that the root keeps Prec steps whatever the
\* vector's size (a float keeps its relative precision in the same way).
Magnitude(dx, dy) ==
    LET m == Max(Abs(dx), Abs(dy))
        k == IF m = 0 \/ m >= Prec THEN 1 ELSE Prec \div m
    IN [k |-> k, len |-> MathSqrt((k * dx) * (k * dx) + (k * dy) * (k * dy))]

\* magnitude > t, for a magnitude and a fixed-point number t
Greater(mag, t) == mag.len > t * mag.k

\* a slip: the product without the ratio
TimesRatioForgotten(d, length, currentLength) == d

\* d * (length / currentLength), the ratio and the product of the solver
TimesRatio(d, length, currentLength) ==
    RoundDiv(d * currentLength.k * length, currentLength.len)

\* a slip: Math.atan2 with its arguments exchanged
Atan2Exchanged(y, x) == [y |-> x, x |-> y]

\* Math.atan2(y, x): an angle is kept as the direction that defines it
Atan2(y, x) == [y |-> y, x |-> x]

\* Math.cos(angle) * length and Math.sin(angle) * length
CosTimes(angle, length) ==
    IF angle.x = 0 /\ angle.y = 0 THEN length
    ELSE TimesRatio(angle.x, length, Magnitude(angle.x, angle.y))

SinTimes(angle, length) ==
    IF angle.x = 0 /\ angle.y = 0 THEN 0
    ELSE TimesRatio(angle.y, length, Magnitude(angle.x, angle.y))

\* -Math.PI / 2
initialAngle == Atan2(-1, 0)

(***************************************************************************)
(* Segment and the poses of a chain.                                       *)
(***************************************************************************)
\* new Segment(length)
Segment(length) ==
    [startX |-> 0, startY |-> 0, endX |-> 0, endY |-> 0, length |-> length]

RECURSIVE StraightFrom(_, _, _, _, _)
\* segments i.. laid out end to end from (prevX, prevY) at one angle
StraightFrom(segs, i, prevX, prevY, angle) ==
    IF i > Len(segs) THEN segs
    ELSE LET endX == prevX + CosTimes(angle, segs[i].length)
             endY == prevY + SinTimes(angle, segs[i].length)
             placed == [segs EXCEPT ![i] = [@ EXCEPT !.startX = prevX,
                                                     !.startY = prevY,
                                                     !.endX = endX,
                                                     !.endY = endY]]
         IN StraightFrom(placed, i + 1, endX, endY, angle)

\* IKChain.initializePositions
InitializePositions(segs, base, sp) ==
    IF base = Null \/ Len(segs) = 0 THEN segs
    ELSE StraightFrom(segs, 1, sp[base].x, sp[base].y, initialAngle)

RECURSIVE ForwardLoop(_, _)
\* the loop of the forward reaching pass, from segment i down to the first
ForwardLoop(segs, i) ==
    IF i < 1 THEN segs
    ELSE LET a == IF i < Len(segs)
                  THEN [segs EXCEPT ![i].endX = segs[i + 1].startX,
                                    ![i].endY = segs[i + 1].startY]
                  ELSE segs
             dx == a[i].endX - a[i].startX
             dy == a[i].endY - a[i].startY
             currentLength == Magnitude(dx, dy)
             b == IF currentLength.len > 0
                  THEN [a EXCEPT
                          ![i].startX = a[i].endX - TimesRatio(dx, a[i].length, currentLength),
                          ![i].startY = a[i].endY - TimesRatio(dy, a[i].length, currentLength)]
                  ELSE a
             c == IF i > 1
                  THEN [b EXCEPT ![i - 1].endX = b[i].startX,
                                 ![i - 1].endY = b[i].startY]
                  ELSE b
         IN ForwardLoop(c, i - 1)

\* FORWARD REACHING: the end effector is pinned to the target
ForwardReaching(segs, targetX, targetY) ==
    ForwardLoop([segs EXCEPT ![Len(segs)].endX = targetX,
                             ![Len(segs)].endY = targetY], Len(segs))

RECURSIVE BackwardLoopDetached(_, _, _)
\* a slip: the backward pass rescales each segment where it lies and
\* links it to neither neighbour
BackwardLoopDetached(segs, i, zero) ==
    IF i > Len(segs) THEN [segments |-> segs, zero |-> zero]
    ELSE LET dx == segs[i].endX - segs[i].startX
             dy == segs[i].endY - segs[i].startY
             currentLength == Magnitude(dx, dy)
             b == IF currentLength.len > 0
                  THEN [segs EXCEPT
                          ![i].endX = segs[i].startX + TimesRatio(dx, segs[i].length, currentLength),
                          ![i].endY = segs[i].startY + TimesRatio(dy, segs[i].length, currentLength)]
                  ELSE segs
         IN BackwardLoopDetached(b, i + 1,
                                 IF currentLength.len > 0 THEN zero ELSE zero \cup {i})

RECURSIVE BackwardLoop(_, _, _)
\* the loop of the backward reaching pass, from segment i up to the last;
\* zero collects the segments whose rescale was skipped
BackwardLoop(segs, i, zero) ==
    IF i > Len(segs) THEN [segments |-> segs, zero |-> zero]
    ELSE LET a == IF i > 1
                  THEN [segs EXCEPT ![i].startX = segs[i - 1].endX,
                                    ![i].startY = segs[i - 1].endY]
                  ELSE segs
             dx == a[i].endX - a[i].startX
             dy == a[i].endY - a[i].startY
             currentLength == Magnitude(dx, dy)
             b == IF currentLength.len > 0
                  THEN [a EXCEPT
                          ![i].endX = a[i].startX + TimesRatio(dx, a[i].length, currentLength),
                          ![i].endY = a[i].startY + TimesRatio(dy, a[i].length, currentLength)]
                  ELSE a
             c == IF i < Len(segs)
                  THEN [b EXCEPT ![i + 1].startX = b[i].endX,
                                 ![i + 1].startY = b[i].endY]
                  ELSE b
         IN BackwardLoop(c, i + 1,
                         IF currentLength.len > 0 THEN zero ELSE zero \cup {i})

\* BACKWARD REACHING: the first segment is pinned to the base
BackwardReaching(segs, baseX, baseY) ==
    BackwardLoop([segs EXCEPT ![1].startX = baseX, ![1].startY = baseY], 1, {})

RECURSIVE Iterate(_, _, _, _, _, _)
\* iterations iteration.. of the reachable branch
Iterate(pose, iteration, targetX, targetY, baseX, baseY) ==
    IF iteration >= iterations THEN pose
    ELSE Iterate(BackwardReaching(ForwardReaching(pose.segments, targetX, targetY),
                                  baseX, baseY),
                 iteration + 1, targetX, targetY, baseX, baseY)

\* the solver of updatePositions: the new segments, the branch taken, and
\* the segments whose rescale the last backward pass skipped
Solve(segs, targetX, targetY, baseX, baseY, total) ==
    LET distanceToTarget == Magnitude(targetX - baseX, targetY - baseY)
    IN IF Greater(distanceToTarget, total)
       THEN [segments |-> StraightFrom(segs, 1, baseX, baseY,
                                       Atan2(targetY - baseY, targetX - baseX)),
             zero |-> {}, unreachable |-> TRUE]
       ELSE LET pose == Iterate([segments |-> segs, zero |-> {}], 0,
                                targetX, targetY, baseX, baseY)
            IN [segments |-> pose.segments, zero |-> pose.zero,
                unreachable |-> FALSE]

(***************************************************************************)
(* State.                                                                  *)
(***************************************************************************)
VARIABLES
    chains,     \* the registry `chains`: a sequence of IKChain objects
    sprites,    \* the host's sprites: identity -> position [x, y]
    raised,     \* an exception (a read through a null reference) was thrown
    lastCall,   \* history: the last call made and what it read
    calls,      \* history: calls of the chain's operations so far
    adds        \* history: of which addJointSprite / addMidSegmentSprite calls

vars == <<chains, sprites, raised, lastCall, calls, adds>>

\* the record kept of a call; the fields a call does not use keep these values
NoCall ==
    [op |-> "none", sprite |-> Null, index |-> 0, position |-> 0, done |-> FALSE,
     targetX |-> 0, targetY |-> 0, baseX |-> 0, baseY |-> 0,
     unreachable |-> FALSE, zero |-> {}]

(***************************************************************************)
(* IKChain.                                                                *)
(***************************************************************************)
RECURSIVE NewSegments(_, _)
\* the constructor's loop: segmentCount segments of segmentLength
NewSegments(segmentCount, segmentLength) ==
    IF segmentCount <= 0 THEN <<>>
    ELSE Append(NewSegments(segmentCount - 1, segmentLength), Segment(segmentLength))

RECURSIVE SumLength(_, _)
\* the constructor's running sum totalLength += segmentLength
SumLength(segmentCount, segmentLength) ==
    IF segmentCount <= 0 THEN 0
    ELSE SumLength(segmentCount - 1, segmentLength) + segmentLength

\* new IKChain(segmentCount, segmentLength, color, thickness, headSprite, baseSprite)
NewIKChain(segmentCount, segmentLength, headSprite, baseSprite, sp) ==
    [segments |-> InitializePositions(NewSegments(segmentCount, segmentLength),
                                      baseSprite, sp),
     headSprite |-> headSprite,
     baseSprite |-> baseSprite,
     totalLength |-> SumLength(segmentCount, segmentLength),
     jointSprites |-> <<>>,
     midSegmentSprites |-> <<>>]

\* sprite.x = x; sprite.y = y
SetXY(mem, sprite, x, y) ==
    [mem EXCEPT !.sprites = [@ EXCEPT ![sprite] = [x |-> x, y |-> y]]]

\* a slip: an interior joint read from the segment after it
UpdateJointSpriteOffByOne(mem, chain, jointIndex) ==
    LET sprite == IF jointIndex + 1 \in DOMAIN chain.jointSprites
                  THEN chain.jointSprites[jointIndex + 1] ELSE Null
        n == Len(chain.segments)
    IN IF mem.raised \/ sprite = Null THEN mem
       ELSE IF jointIndex = 0
            THEN IF chain.baseSprite = Null
                 THEN [mem EXCEPT !.raised = TRUE]
                 ELSE SetXY(mem, sprite, mem.sprites[chain.baseSprite].x,
                                         mem.sprites[chain.baseSprite].y)
       ELSE IF jointIndex = n
            THEN SetXY(mem, sprite, chain.segments[n].endX, chain.segments[n].endY)
       ELSE SetXY(mem, sprite, chain.segments[jointIndex + 1].endX,
                               chain.segments[jointIndex + 1].endY)

\* IKChain.updateJointSprite; mem is [sprites, raised], chain the chain as
\* it is at the call
UpdateJointSprite(mem, chain, jointIndex) ==
    LET sprite == IF jointIndex + 1 \in DOMAIN chain.jointSprites
                  THEN chain.jointSprites[jointIndex + 1] ELSE Null
        n == Len(chain.segments)
    IN IF mem.raised \/ sprite = Null THEN mem
       ELSE IF jointIndex = 0
            THEN IF chain.baseSprite = Null
                 THEN [mem EXCEPT !.raised = TRUE]
                 ELSE SetXY(mem, sprite, mem.sprites[chain.baseSprite].x,
                                         mem.sprites[chain.baseSprite].y)
       ELSE IF jointIndex = n
            THEN SetXY(mem, sprite, chain.segments[n].endX, chain.segments[n].endY)
       ELSE IF jointIndex \notin DOMAIN chain.segments
            THEN [mem EXCEPT !.raised = TRUE]   \* segments[jointIndex - 1] is undefined
       ELSE SetXY(mem, sprite, chain.segments[jointIndex].endX,
                               chain.segments[jointIndex].endY)

\* IKChain.updateMidSegmentSprite; index counts from 0
UpdateMidSegmentSprite(mem, chain, index) ==
    IF mem.raised \/ index + 1 \notin DOMAIN chain.midSegmentSprites THEN mem
    ELSE LET spriteInfo == chain.midSegmentSprites[index + 1]
             segment == chain.segments[spriteInfo.segmentIndex + 1]
             position == spriteInfo.position
             x == segment.startX + RoundDiv((segment.endX - segment.startX) * position, Scale)
             y == segment.startY + RoundDiv((segment.endY - segment.startY) * position, Scale)
         IN IF spriteInfo.sprite = Null THEN mem
            ELSE IF spriteInfo.segmentIndex + 1 \notin DOMAIN chain.segments
                 THEN [mem EXCEPT !.raised = TRUE]   \* segment is undefined
            ELSE SetXY(mem, spriteInfo.sprite, x, y)

\* a slip: the end effector written to the base sprite
WriteBackToBase(mem, chain) ==
    LET lastSegment == chain.segments[Len(chain.segments)]
    IN SetXY(mem, chain.baseSprite, lastSegment.endX, lastSegment.endY)

\* a slip: the head sprite given the last segment's start
WriteBackStart(mem, chain) ==
    LET lastSegment == chain.segments[Len(chain.segments)]
    IN SetXY(mem, chain.headSprite, lastSegment.startX, lastSegment.startY)

\* headSprite.x = lastSegment.endX; headSprite.y = lastSegment.endY
WriteBack(mem, chain) ==
    LET lastSegment == chain.segments[Len(chain.segments)]
    IN SetXY(mem, chain.headSprite, lastSegment.endX, lastSegment.endY)

RECURSIVE SyncJoints(_, _, _)
\* for (i = 0; i < jointSprites.length; i++) updateJointSprite(i)
SyncJoints(mem, chain, i) ==
    IF i >= Len(chain.jointSprites) THEN mem
    ELSE SyncJoints(UpdateJointSprite(mem, chain, i), chain, i + 1)

RECURSIVE SyncMids(_, _, _)
\* for (i = 0; i < midSegmentSprites.length; i++) updateMidSegmentSprite(i)
SyncMids(mem, chain, i) ==
    IF i >= Len(chain.midSegmentSprites) THEN mem
    ELSE SyncMids(UpdateMidSegmentSprite(mem, chain, i), chain, i + 1)

RECURSIVE PadNull(_, _)
\* while (jointSprites.length <= jointIndex) jointSprites.push(null)
PadNull(jointSprites, jointIndex) ==
    IF Len(jointSprites) > jointIndex THEN jointSprites
    ELSE PadNull(Append(jointSprites, Null), jointIndex)

\* the index test of addJointSprite
JointIndexInvalid(chain, jointIndex) ==
    jointIndex < 0 \/ jointIndex > Len(chain.segments)

\* a slip: > for >=
SegmentIndexInvalidOffByOne(chain, segmentIndex) ==
    segmentIndex < 0 \/ segmentIndex > Len(chain.segments)

\* the index test of addMidSegmentSprite
SegmentIndexInvalid(chain, segmentIndex) ==
    segmentIndex < 0 \/ segmentIndex >= Len(chain.segments)

\* a slip: the position stored as passed
ClampForgotten(position) == position

\* position = Math.max(0, Math.min(1, position)); 1 is Scale steps
Clamp(position) == Max(0, Min(Scale, position))

(***************************************************************************)
(* The operations.                                                         *)
(***************************************************************************)
\* the positions the host program gives the base sprite (pixels)
BasePoints == {Pt(0, 0), Pt(2, 1)}
\* the positions the host program gives the head sprite (pixels)
TargetPoints == {Pt(3, 4), Pt(12, 16)}
\* the same, for the behaviours that only move and solve
SolveTargetPoints ==
    {Pt(0, 0), Pt(0, -SegLen), Pt(3, 4), Pt(7, 1), Pt(12, 16), Pt(20, 3)}
\* the segment lengths passed to createIKChain: invalid (0) and valid
SegmentLengths == {0, Px(SegLen)}
\* the sprites passed to the add operations
AttachSprites == {"head", "a"}
\* the positions passed to addMidSegmentSprite: -1/2, 1/2, 3/2
Positions == {-(Scale \div 2), Scale \div 2, Scale + Scale \div 2}

\* where the sprites are when the chain is created
StartSprites ==
    [s \in Sprites |-> IF s = "base" THEN Pt(0, 0)
                       ELSE IF s = "head" THEN Pt(0, -10)
                       ELSE Pt(1, 1)]

\* createIKChain(segments, length, color, thickness, head, base) has run once
Init ==
    \E segmentCount \in 0..MaxSegments, segmentLength \in SegmentLengths,
       head \in {Null, "head"}, base \in {Null, "base"} :
        /\ sprites = StartSprites
        /\ chains = <<NewIKChain(segmentCount, segmentLength, head, base, sprites)>>
        /\ raised = FALSE
        /\ lastCall = [NoCall EXCEPT !.op = "createIKChain", !.done = TRUE]
        /\ calls = 0
        /\ adds = 0

\* the host program moves an anchor sprite
SetPosition(c, s, p) ==
    /\ ~raised
    /\ s \in {chains[c].baseSprite, chains[c].headSprite} \ {Null}
    /\ sprites[s] # p
    /\ sprites' = [sprites EXCEPT ![s] = p]
    /\ lastCall' = [NoCall EXCEPT !.op = "setPosition"]
    /\ UNCHANGED <<chains, raised, calls, adds>>

\* IKChain.addJointSprite(sprite, jointIndex)
AddJointSprite(c, sprite, jointIndex) ==
    /\ ~raised
    /\ calls < MaxCalls /\ adds < MaxAdds
    /\ calls' = calls + 1 /\ adds' = adds + 1
    /\ LET chain == chains[c]
           call == [NoCall EXCEPT !.op = "addJointSprite", !.sprite = sprite,
                                  !.index = jointIndex]
       IN IF JointIndexInvalid(chain, jointIndex)
          THEN /\ lastCall' = call
               /\ UNCHANGED <<chains, sprites, raised>>
          ELSE LET bound == [chain EXCEPT !.jointSprites =
                                [PadNull(@, jointIndex) EXCEPT ![jointIndex + 1] = sprite]]
                   mem == UpdateJointSprite([sprites |-> sprites, raised |-> FALSE],
                                            bound, jointIndex)
               IN /\ chains' = [chains EXCEPT ![c] = bound]
                  /\ sprites' = mem.sprites
                  /\ raised' = mem.raised
                  /\ lastCall' = [call EXCEPT !.done = TRUE]

\* IKChain.addMidSegmentSprite(sprite, segmentIndex, position)
AddMidSegmentSprite(c, sprite, segmentIndex, position) ==
    /\ ~raised
    /\ calls < MaxCalls /\ adds < MaxAdds
    /\ calls' = calls + 1 /\ adds' = adds + 1
    /\ LET chain == chains[c]
           call == [NoCall EXCEPT !.op = "addMidSegmentSprite", !.sprite = sprite,
                                  !.index = segmentIndex, !.position = position]
       IN IF SegmentIndexInvalid(chain, segmentIndex)
          THEN /\ lastCall' = call
               /\ UNCHANGED <<chains, sprites, raised>>
          ELSE LET bound == [chain EXCEPT !.midSegmentSprites =
                                Append(@, [sprite |-> sprite,
                                           segmentIndex |-> segmentIndex,
                                           position |-> Clamp(position)])]
                   mem == UpdateMidSegmentSprite([sprites |-> sprites, raised |-> FALSE],
                                                 bound, Len(bound.midSegmentSprites) - 1)
               IN /\ chains' = [chains EXCEPT ![c] = bound]
                  /\ sprites' = mem.sprites
                  /\ raised' = mem.raised
                  /\ lastCall' = [call EXCEPT !.done = TRUE]

\* IKChain.updatePositions()
UpdatePositions(c) ==
    /\ ~raised
    /\ calls < MaxCalls
    /\ calls' = calls + 1
    /\ LET chain == chains[c]
           call == [NoCall EXCEPT !.op = "updatePositions"]
       IN IF chain.headSprite = Null \/ chain.baseSprite = Null
             \/ Len(chain.segments) = 0
          THEN /\ lastCall' = call
               /\ UNCHANGED <<chains, sprites, raised>>
          ELSE LET targetX == sprites[chain.headSprite].x
                   targetY == sprites[chain.headSprite].y
                   baseX == sprites[chain.baseSprite].x
                   baseY == sprites[chain.baseSprite].y
                   solved == Solve(chain.segments, targetX, targetY, baseX, baseY,
                                   chain.totalLength)
                   posed == [chain EXCEPT !.segments = solved.segments]
                   head == WriteBack([sprites |-> sprites, raised |-> FALSE], posed)
                   mem == SyncMids(SyncJoints(head, posed, 0), posed, 0)
               IN /\ chains' = [chains EXCEPT ![c] = posed]
                  /\ sprites' = mem.sprites
                  /\ raised' = mem.raised
                  /\ lastCall' = [call EXCEPT !.done = TRUE,
                                              !.targetX = targetX, !.targetY = targetY,
                                              !.baseX = baseX, !.baseY = baseY,
                                              !.unreachable = solved.unreachable,
                                              !.zero = solved.zero]
    /\ UNCHANGED adds

Next ==
    \E c \in DOMAIN chains :
        \/ \E s \in {"base"}, p \in BasePoints : SetPosition(c, s, p)
        \/ \E s \in {"head"}, p \in TargetPoints : SetPosition(c, s, p)
        \/ \E s \in AttachSprites, j \in -1..(MaxSegments + 1) : AddJointSprite(c, s, j)
        \/ \E s \in AttachSprites, i \in -1..MaxSegments, p \in Positions :
               AddMidSegmentSprite(c, s, i, p)
        \/ UpdatePositions(c)

Spec == Init /\ [][Next]_vars

\* the behaviours in which the host only moves the anchors and solves
NextSolve ==
    \E c \in DOMAIN chains :
        \/ \E s \in {"base"}, p \in BasePoints : SetPosition(c, s, p)
        \/ \E s \in {"head"}, p \in SolveTargetPoints : SetPosition(c, s, p)
        \/ UpdatePositions(c)

SpecSolve == Init /\ [][NextSolve]_vars

(***************************************************************************)
(* Vocabulary of the properties.                                           *)
(***************************************************************************)
\* the tolerance of a length, in fixed-point steps
Eps == 1

\* the chain the properties are about
TheChain == chains[1]
N == Len(TheChain.segments)
Seg(i) == TheChain.segments[i]

\* the state right after an updatePositions call that did not return early
Solved == lastCall.op = "updatePositions" /\ lastCall.done

\* | |(dx, dy)| - length | <= eps, decided on the squares
LengthWithin(dx, dy, length, eps) ==
    LET q == dx * dx + dy * dy
    IN /\ q <= (length + eps) * (length + eps)
       /\ length <= eps \/ q >= (length - eps) * (length - eps)

SegmentKeepsLength(i) ==
    LengthWithin(Seg(i).endX - Seg(i).startX, Seg(i).endY - Seg(i).startY,
                 Seg(i).length, Eps)

\* C1 (length invariant): after every completed updatePositions, in the
\* unreachable and in the reachable branch alike, every segment's endpoints
\* are at the segment's length from each other (to within Eps steps of
\* rounding), except a segment whose endpoints coincided before the rescale
\* in the backward pass of the last iteration.
C1_LengthInvariant ==
    Solved => \A i \in 1..N : i \notin lastCall.zero => SegmentKeepsLength(i)

\* a reachable-branch solve of a full-size chain that ended in a bent pose
C1_Witness ==
    /\ Solved /\ ~lastCall.unreachable /\ lastCall.zero = {}
    /\ N = MaxSegments /\ Seg(1).length > 0
    /\ \A i \in 1..N : Seg(i).startX # Seg(i).endX /\ Seg(i).startY # Seg(i).endY
    /\ (Seg(1).endX - Seg(1).startX) * (Seg(N).endY - Seg(N).startY)
         # (Seg(1).endY - Seg(1).startY) * (Seg(N).endX - Seg(N).startX)

\* the exception of C1 happens: a solve ends with a collapsed segment
C1_DegenerateReached ==
    /\ Solved /\ lastCall.zero # {}
    /\ \E i \in lastCall.zero : Seg(i).length > 0 /\ ~SegmentKeepsLength(i)

\* C2 (continuity invariant): in every state, that is after construction
\* and after any number of updatePositions calls with the anchors moved in
\* between, each segment ends where the next one starts.
C2_Continuity ==
    \A i \in 1..(N - 1) :
        Seg(i).endX = Seg(i + 1).startX /\ Seg(i).endY = Seg(i + 1).startY

\* a solve whose last backward pass skipped a rescale, on a chain of
\* several segments
C2_Witness ==
    /\ Solved /\ lastCall.zero # {} /\ N >= 2 /\ Seg(1).length > 0
    /\ calls >= 2

JointPoint(chain, sp, j) ==
    IF j = 0 THEN sp[chain.baseSprite]
    ELSE [x |-> chain.segments[j].endX, y |-> chain.segments[j].endY]

\* the sprites bound somewhere in the chain
BoundSprites(chain) ==
    ({chain.jointSprites[k] : k \in DOMAIN chain.jointSprites}
        \cup {chain.midSegmentSprites[k].sprite : k \in DOMAIN chain.midSegmentSprites})
    \ {Null}

\* sprite s is bound again after joint j in the order of the sync: at a
\* higher joint or in a mid-segment entry
BoundAfterJoint(chain, s, j) ==
    \/ \E k \in DOMAIN chain.jointSprites : k > j + 1 /\ chain.jointSprites[k] = s
    \/ \E k \in DOMAIN chain.midSegmentSprites : chain.midSegmentSprites[k].sprite = s

\* sprite s is bound again after mid-segment entry m (counted from 1)
BoundAfterMid(chain, s, m) ==
    \E k \in DOMAIN chain.midSegmentSprites :
        k > m /\ chain.midSegmentSprites[k].sprite = s

\* point q is start + (end - start) * position on the entry's segment:
\* the start at 0, the end at 1 (Scale steps), and in between the
\* interpolation rounded to the nearest step
AtInterpolation(chain, q, entry) ==
    LET segment == chain.segments[entry.segmentIndex + 1]
        OnAxis(v, from, to) ==
            /\ entry.position = 0 => v = from
            /\ entry.position = Scale => v = to
            /\ 2 * Abs(Scale * (v - from) - (to - from) * entry.position) <= Scale
    IN /\ OnAxis(q.x, segment.startX, segment.endX)
       /\ OnAxis(q.y, segment.startY, segment.endY)

\* the step is a call of op
Called(op) == lastCall'.op = op

C5_ConstructionFails ==
    \A c \in DOMAIN chains :
        /\ Len(chains[c].segments) >= 1
        /\ \A i \in DOMAIN chains[c].segments : chains[c].segments[i].length > 0
        /\ chains[c].totalLength
             = Len(chains[c].segments) * chains[c].segments[1].length

(***************************************************************************)
(* C6                                                                      *)
(***************************************************************************)
\* C6 (invalid-index no-ops): addJointSprite with a joint index outside
\* [0, segmentCount] and addMidSegmentSprite with a segment index outside
\* [0, segmentCount) raise nothing and leave the chain (segments, joint
\* list, mid-segment list) and every sprite's position, the passed one
\* included, unchanged.
C6_InvalidIndexNoOp ==
    [][(\/ /\ Called("addJointSprite")
           /\ lastCall'.index < 0 \/ lastCall'.index > N
        \/ /\ Called("addMidSegmentSprite")
           /\ lastCall'.index < 0 \/ lastCall'.index >= N)
       => chains' = chains /\ sprites' = sprites /\ ~raised']_vars

\* a joint add one past the last joint, on a chain that has bindings
C6_Witness ==
    /\ lastCall.op = "addJointSprite" /\ lastCall.index = N + 1 /\ N >= 1
    /\ TheChain.jointSprites # <<>>
    /\ sprites[lastCall.sprite] = Pt(1, 1)

\* a mid-segment add at segment index segmentCount
C6_MidReached ==
    /\ lastCall.op = "addMidSegmentSprite" /\ lastCall.index = N /\ N >= 1
    /\ TheChain.midSegmentSprites # <<>>

(***************************************************************************)
(* C7                                                                      *)
(***************************************************************************)
\* C7 as claimed (joint attachments): right after addJointSprite the
\* object bound sits at its joint, and after every completed
\* updatePositions the object bound at each joint sits at that joint:
\* joint 0 is the base anchor's position, joint j > 0 the end of segment
\* j - 1 (the end effector for j = segmentCount).
C7_Original ==
    /\ (lastCall.op = "addJointSprite" /\ lastCall.done /\ ~raised)
         => sprites[lastCall.sprite] = JointPoint(TheChain, sprites, lastCall.index)
    /\ Solved =>
         \A j \in 0..(Len(TheChain.jointSprites) - 1) :
             TheChain.jointSprites[j + 1] # Null
                => sprites[TheChain.jointSprites[j + 1]] = JointPoint(TheChain, sprites, j)

\* C7 as amended: a completed addJointSprite(sprite, j) puts sprite in
\* slot j, replacing what was there, pads the slots below j that did not
\* exist with no binding and leaves the other slots as they were; unless
\* it raised, sprite then sits at joint j.  After every completed
\* updatePositions the object bound at joint j sits at joint j provided it
\* is not bound again at a higher joint or in a mid-segment entry (for
\* joint 0: provided also that the base sprite is not bound at a joint
\* above 0 or in a mid-segment entry).
C7_JointAttachments ==
    [][/\ (Called("addJointSprite") /\ lastCall'.done) =>
            LET old == TheChain.jointSprites
                new == chains'[1].jointSprites
                j == lastCall'.index
            IN /\ Len(new) = Max(Len(old), j + 1)
               /\ \A k \in DOMAIN new :
                     new[k] = IF k = j + 1 THEN lastCall'.sprite
                              ELSE IF k \in DOMAIN old THEN old[k] ELSE Null
               /\ ~raised' => sprites'[lastCall'.sprite] = JointPoint(chains'[1], sprites', j)
       /\ (Called("updatePositions") /\ lastCall'.done) =>
            \A j \in 0..(Len(chains'[1].jointSprites) - 1) :
                LET s == chains'[1].jointSprites[j + 1]
                IN (/\ s # Null
                    /\ ~BoundAfterJoint(chains'[1], s, j)
                    /\ j = 0 => ~BoundAfterJoint(chains'[1], chains'[1].baseSprite, 0))
                   => sprites'[s] = JointPoint(chains'[1], sprites', j)]_vars

\* after a solve with the base moved: two objects bound at joint 0 and at
\* the interior joint 1, each bound once
C7_Witness ==
    /\ Solved /\ N = 2 /\ sprites["base"] # Pt(0, 0)
    /\ Len(TheChain.jointSprites) = 2
    /\ TheChain.jointSprites[1] = "head" /\ TheChain.jointSprites[2] = "a"
    /\ TheChain.midSegmentSprites = <<>>
    /\ Seg(1).endX # Seg(1).startX

(***************************************************************************)
(* C8                                                                      *)
(***************************************************************************)
\* C8 as claimed (mid-segment attachments): every stored position is in
\* [0, 1]; right after addMidSegmentSprite the new entry's object, and
\* after every completed updatePositions every entry's object, sits at
\* start + (end - start) x position of the entry's segment.
C8_Original ==
    LET mids == TheChain.midSegmentSprites
    IN /\ \A m \in DOMAIN mids : mids[m].position >= 0 /\ mids[m].position <= Scale
       /\ (lastCall.op = "addMidSegmentSprite" /\ lastCall.done /\ lastCall.sprite # Null)
            => AtInterpolation(TheChain, sprites[lastCall.sprite], mids[Len(mids)])
       /\ Solved =>
            \A m \in DOMAIN mids :
                mids[m].sprite # Null
                   => AtInterpolation(TheChain, sprites[mids[m].sprite], mids[m])

\* C8 as amended: a completed addMidSegmentSprite(sprite, i, position)
\* appends the entry (sprite, i, position clamped to [0, 1]) and keeps
\* every earlier entry, so every stored position is in [0, 1] and several
\* entries may name one segment; the new entry's object then sits at
\* start + (end - start) x position of segment i.  After every completed
\* updatePositions an entry's object sits at that point of its segment
\* provided no later entry binds the same object.
C8_MidAttachments ==
    [][/\ \A m \in DOMAIN chains'[1].midSegmentSprites :
            /\ chains'[1].midSegmentSprites[m].position >= 0
            /\ chains'[1].midSegmentSprites[m].position <= Scale
       /\ (Called("addMidSegmentSprite") /\ lastCall'.done) =>
            LET p == lastCall'.position
                entry == [sprite |-> lastCall'.sprite, segmentIndex |-> lastCall'.index,
                          position |-> IF p < 0 THEN 0 ELSE IF p > Scale THEN Scale ELSE p]
            IN /\ chains'[1].midSegmentSprites
                    = TheChain.midSegmentSprites \o <<entry>>
               /\ entry.sprite # Null
                    => AtInterpolation(chains'[1], sprites'[entry.sprite], entry)
       /\ (Called("updatePositions") /\ lastCall'.done) =>
            \A m \in DOMAIN chains'[1].midSegmentSprites :
                LET entry == chains'[1].midSegmentSprites[m]
                IN (entry.sprite # Null /\ ~BoundAfterMid(chains'[1], entry.sprite, m))
                   => AtInterpolation(chains'[1], sprites'[entry.sprite], entry)]_vars

\* after a solve that bent the chain: two entries on one segment, one
\* stored at 0 from a position below 0 and one in between
C8_Witness ==
    /\ Solved /\ N = MaxSegments /\ ~lastCall.unreachable
    /\ Len(TheChain.midSegmentSprites) = 2
    /\ TheChain.midSegmentSprites[1].segmentIndex = TheChain.midSegmentSprites[2].segmentIndex
    /\ TheChain.midSegmentSprites[1].sprite = "head"
    /\ TheChain.midSegmentSprites[1].position = 0
    /\ TheChain.midSegmentSprites[2].sprite = "a"
    /\ TheChain.midSegmentSprites[2].position \notin {0, Scale}
    /\ Seg(N).startX # Seg(N).endX /\ Seg(N).startY # Seg(N).endY

(***************************************************************************)
(* C9                                                                      *)
(***************************************************************************)
\* C9 as claimed (missing references): no operation ever raises, and on a
\* chain whose base or head sprite is absent, or that has no segments,
\* updatePositions changes neither the chain nor any sprite.
C9_MissingReferenceNoOp ==
    [][/\ ~raised'
       /\ (/\ Called("updatePositions")
           /\ \/ TheChain.baseSprite = Null
              \/ TheChain.headSprite = Null
              \/ N = 0)
          => chains' = chains /\ sprites' = sprites]_vars

(***************************************************************************)
(* C10                                                                     *)
(***************************************************************************)
\* the step is an updatePositions call made right after a completed
\* updatePositions that took the unreachable branch: nothing moved in
\* between
SolvedAgain ==
    /\ Solved /\ lastCall.unreachable
    /\ Called("updatePositions") /\ lastCall'.done

====
